---- MODULE Spec2Model ----
(***************************************************************************)
(* Order routing, cost resolution and order persistence of the IntimaSync  *)
(* Shopify backend: OrderService (services/orderService), the order        *)
(* webhook (routes/webhooks.js) and the order reader (routes/orders.js).   *)
(* The supplier sync (SyncService, SupplierService) fills the catalog the  *)
(* router reads; the scheduled job, the uninstall webhook and the OAuth    *)
(* callback decide which stores are synced.                                *)
(*                                                                         *)
(* Every `await` of the JavaScript code is a suspension point, so each     *)
(* action below is the code that runs between two awaits of one webhook    *)
(* delivery; deliveries interleave at those points.                        *)
(***************************************************************************)
EXTENDS Integers, Sequences, FiniteSets, TLC

VARIABLES
    products,          \* Product table
    supplierProducts,  \* SupplierProduct table (the offers)
    orders,            \* Order table
    orderItems,        \* OrderItem table, in insertion order
    pc,                \* per delivery: position in the handler
    req,               \* per delivery: the request (headers and body)
    order,             \* per delivery: id of the row returned by order.create
    rt,                \* per delivery: locals of calculateOptimalRouting
    routing,           \* per delivery: value returned by calculateOptimalRouting
    wr,                \* per delivery: index of the next OrderItem to write
    response,          \* per delivery: HTTP status sent (0: none yet)
    thrown,            \* per delivery: the error processOrder threw, if any
    submitted,         \* order ids handed to submitOrdersToSuppliers
    suppliers,         \* Supplier table
    storeActive,       \* Store table: isActive per store
    syncLogs,          \* SyncLog table, in insertion order
    syncPc,            \* position of syncStoreSuppliers for store s1
    syncPromises,      \* supplier syncs pushed onto syncPromises
    sync,              \* per supplier sync: position and locals
    lastUpsert         \* history: the values of the last upsert per pair

vars == <<products, supplierProducts, orders, orderItems, pc, req, order,
          rt, routing, wr, response, thrown, submitted, suppliers,
          storeActive, syncLogs, syncPc, syncPromises, sync, lastUpsert>>

catalogVars == <<products, supplierProducts>>
orderVars == <<orders, orderItems, submitted>>
callVars == <<pc, req, order, rt, routing, wr, response, thrown>>
syncVars == <<suppliers, storeActive, syncLogs, syncPc, syncPromises, sync,
              lastUpsert>>

----------------------------------------------------------------------------
(* Bounds *)

MaxCalls == 2      \* webhook deliveries in one behaviour
MaxItems == 2      \* line items of an order given to the router

Calls == 1..MaxCalls

Null == "null"

----------------------------------------------------------------------------
(* Catalog *)

\* Supplier rows. The names are the ones upsertProduct is called with;
\* Supplier.name is unique (it is looked up with findUnique).
Suppliers ==
    { [id |-> 1, name |-> "nalpac"],
      [id |-> 2, name |-> "honeysplace"],
      [id |-> 3, name |-> "eldorado"] }

SupplierIds == { s.id : s \in Suppliers }

\* include: { supplier: true }
SupplierOf(sp) == CHOOSE s \in Suppliers : s.id = sp.supplierId

\* Position of a supplier name in ascending string order
\* ("eldorado" < "honeysplace" < "nalpac").
NameRank(name) ==
    CASE name = "eldorado" -> 1
      [] name = "honeysplace" -> 2
      [] name = "nalpac" -> 3

Stores == { [id |-> "s1", shopDomain |-> "one.myshopify.com"],
            [id |-> "s2", shopDomain |-> "two.myshopify.com"] }

Product(id, storeId, spid, sku, locked, preferred) ==
    [id |-> id, storeId |-> storeId, upc |-> Null, shopifyProductId |-> spid,
     internalSku |-> sku, isSupplierLocked |-> locked,
     preferredSupplier |-> preferred]

\* What findFirst returns when no row matches.
NoProduct == Product(0, Null, Null, Null, FALSE, Null)

Offer(productId, supplierId, cost, inventory) ==
    [productId |-> productId, supplierId |-> supplierId, cost |-> cost,
     inventory |-> inventory, supplierSku |-> <<"sku", supplierId, productId>>]

\* The offers one supplier may hold for one product in an initial catalog:
\* none, or one row with the given <<cost, inventory>>.
OfferRows(productId, supplierId, choice) ==
    IF choice = <<>> THEN {}
    ELSE {Offer(productId, supplierId, choice[1], choice[2])}

\* Catalogs of store s1 the router is exercised on: product 1 with every
\* lock setting and offers of the three suppliers (honeysplace's possibly
\* out of stock, eldorado's possibly absent); product 2 unlocked with one
\* offer of nalpac, in stock or not. Product 3 belongs to store s2.
RouteCatalogs ==
    { [products |->
          { Product(1, "s1", "sp1", "k1", locked, preferred),
            Product(2, "s1", "sp2", "k2", FALSE, Null),
            Product(3, "s2", "sp9", "k9", FALSE, Null) },
       supplierProducts |->
          OfferRows(1, 1, n) \cup OfferRows(1, 2, h) \cup OfferRows(1, 3, e)
          \cup OfferRows(2, 1, n2) \cup OfferRows(3, 1, <<8, 3>>)] :
      locked \in BOOLEAN, preferred \in {Null, "honeysplace"},
      n \in {<<10, 5>>, <<8, 3>>},
      h \in {<<8, 0>>, <<8, 3>>, <<10, 5>>},
      e \in {<<>>, <<10, 5>>},
      n2 \in {<<8, 0>>, <<8, 3>>} }

\* Catalogs the order webhook is exercised on.
OrderCatalogs ==
    { cat \in RouteCatalogs :
        /\ Offer(1, 1, 10, 5) \in cat.supplierProducts
        /\ Offer(1, 3, 10, 5) \in cat.supplierProducts
        /\ \E inv \in {0, 3} : Offer(2, 1, 8, inv) \in cat.supplierProducts
        /\ \E inv \in {0, 3} : Offer(1, 2, 8, inv) \in cat.supplierProducts
        /\ \A p \in cat.products :
              ~p.isSupplierLocked /\ p.preferredSupplier = Null }

----------------------------------------------------------------------------
(* Requests *)

LineItem(pid, sku, qty) == [product_id |-> pid, sku |-> sku, quantity |-> qty]

\* product_id "sp1" is product 1, sku "k2" is product 2, "sp9" and "k9"
\* belong to a product of another store.
LineItems ==
    { LineItem(pid, sku, qty) :
        pid \in {"sp1", "sp9"}, sku \in {"k2", "k9"}, qty \in {1, 2} }

SeqsUpTo(S, n) == UNION { [1..k -> S] : k \in 0..n }

\* Bodies of the orders/create webhook. A redelivery repeats the body.
ShopifyOrders ==
    { [id |-> 1001, line_items |-> <<LineItem("sp1", "k9", 2),
                                     LineItem("sp9", "k2", 1)>>],
      [id |-> 1003, line_items |-> <<LineItem("sp9", "k9", 1)>>] }

\* X-Shopify-Shop-Domain of a delivery: an installed shop, or one that has
\* no Store row.
ShopDomains == { s.shopDomain : s \in Stores } \cup {"gone.myshopify.com"}

NoRequest == [shopifyOrder |-> [id |-> 0, line_items |-> <<>>],
              shopDomain |-> Null, hmacValid |-> FALSE, store |-> Null]

\* Locals of calculateOptimalRouting before its loop: i is the index of the
\* next line item, found the id of the product findFirst returned for each
\* line item so far (0: none), returned whether the plan has been returned.
NoRouting == [i |-> 1, productsBySupplier |-> <<>>, found |-> <<>>,
              returned |-> FALSE]

----------------------------------------------------------------------------
(* OrderService.calculateOptimalRouting *)

\* where: { OR: [{shopifyProductId}, {internalSku}], storeId }
MatchingProducts(item, storeId) ==
    { p \in products :
        /\ (p.shopifyProductId = item.product_id \/ p.internalSku = item.sku)
        /\ p.storeId = storeId }

ProductById(id) == CHOOSE p \in products : p.id = id

\* The include without its inventory filter.
InStockOffers_AnyInventory(product) ==
    { sp \in supplierProducts : sp.productId = product.id }

\* include: { supplierProducts: { where: { inventory: { gt: 0 } } } }
InStockOffers(product) ==
    { sp \in supplierProducts :
        sp.productId = product.id /\ sp.inventory > 0 }

\* The orders in which the store may return a set of rows: the query has no
\* orderBy, so every order is possible.
Orderings(S) ==
    { f \in [1..Cardinality(S) -> S] : \A i, j \in DOMAIN f : f[i] = f[j] => i = j }

\* supplierProducts.find(sp => sp.supplier.name === product.preferredSupplier):
\* the index of the first hit, 0 when find returns undefined.
FindPreferred(product, sps) ==
    LET hits == { k \in DOMAIN sps :
                    SupplierOf(sps[k]).name = product.preferredSupplier }
    IN  IF hits = {} THEN 0
        ELSE CHOOSE k \in hits : \A j \in hits : k <= j

\* The reduce with its comparison the wrong way round.
RECURSIVE ReduceDearest(_, _, _)
ReduceDearest(sps, prev, k) ==
    IF k > Len(sps) THEN prev
    ELSE ReduceDearest(sps, IF prev.cost > sps[k].cost THEN prev ELSE sps[k], k + 1)

\* supplierProducts.reduce((prev, current) =>
\*     prev.cost < current.cost ? prev : current)
RECURSIVE ReduceCheapest(_, _, _)
ReduceCheapest(sps, prev, k) ==
    IF k > Len(sps) THEN prev
    ELSE ReduceCheapest(sps, IF prev.cost < sps[k].cost THEN prev ELSE sps[k], k + 1)

\* The selection without the lock branch.
SelectSupplier_IgnoreLock(product, sps) == ReduceCheapest(sps, sps[1], 2)

\* The offer chosen for a product out of its in-stock offers, given in the
\* order the store returned them.
SelectSupplier(product, sps) ==
    IF product.isSupplierLocked /\ product.preferredSupplier # Null
    THEN LET hit == FindPreferred(product, sps)
         IN  IF hit # 0 THEN sps[hit] ELSE sps[1]
    ELSE ReduceCheapest(sps, sps[1], 2)

\* if (product && product.supplierProducts.length > 0)
Routable(product, sps) == product # NoProduct /\ Len(sps) > 0

BucketIndex(map, name) ==
    IF \E k \in DOMAIN map : map[k].name = name
    THEN CHOOSE k \in DOMAIN map : map[k].name = name
    ELSE 0

\* The entry pushed on the bucket's items.
RoutedItem(product, item, selected) ==
    [productId |-> product.id, quantity |-> item.quantity,
     cost |-> selected.cost, supplierSku |-> selected.supplierSku]

\* The accumulation with the bucket re-created for every routed line item.
AddToBucket_Overwrite(map, product, item, selected) ==
    LET name == SupplierOf(selected).name
        fresh == [name |-> name, supplierId |-> selected.supplierId,
                  items |-> <<RoutedItem(product, item, selected)>>,
                  totalCost |-> selected.cost * item.quantity,
                  totalItems |-> item.quantity]
    IN  IF BucketIndex(map, name) = 0 THEN Append(map, fresh)
        ELSE [map EXCEPT ![BucketIndex(map, name)] = fresh]

\* The accumulation with the totals counting each line item as one unit.
AddToBucket_UnitTotals(map, product, item, selected) ==
    LET name == SupplierOf(selected).name
        withKey == IF BucketIndex(map, name) = 0
                   THEN Append(map, [name |-> name,
                                     supplierId |-> selected.supplierId,
                                     items |-> <<>>,
                                     totalCost |-> 0,
                                     totalItems |-> 0])
                   ELSE map
        k == BucketIndex(withKey, name)
        b == withKey[k]
    IN  [withKey EXCEPT ![k] =
            [b EXCEPT !.items = Append(b.items, RoutedItem(product, item, selected)),
                      !.totalCost = b.totalCost + selected.cost,
                      !.totalItems = b.totalItems + 1]]

\* The accumulation with every routed item pushed on the first bucket.
AddToBucket_FirstBucket(map, product, item, selected) ==
    LET name == SupplierOf(selected).name
        withKey == IF map = <<>>
                   THEN <<[name |-> name,
                           supplierId |-> selected.supplierId,
                           items |-> <<>>,
                           totalCost |-> 0,
                           totalItems |-> 0]>>
                   ELSE map
        b == withKey[1]
    IN  [withKey EXCEPT ![1] =
            [b EXCEPT !.items = Append(b.items, RoutedItem(product, item, selected)),
                      !.totalCost = b.totalCost + selected.cost * item.quantity,
                      !.totalItems = b.totalItems + item.quantity]]

\* productsBySupplier after one routed line item: the Map keeps its keys in
\* insertion order, a new supplier name gets an empty bucket first.
AddToBucket(map, product, item, selected) ==
    LET name == SupplierOf(selected).name
        withKey == IF BucketIndex(map, name) = 0
                   THEN Append(map, [name |-> name,
                                     supplierId |-> selected.supplierId,
                                     items |-> <<>>,
                                     totalCost |-> 0,
                                     totalItems |-> 0])
                   ELSE map
        k == BucketIndex(withKey, name)
        b == withKey[k]
    IN  [withKey EXCEPT ![k] =
            [b EXCEPT !.items = Append(b.items, RoutedItem(product, item, selected)),
                      !.totalCost = b.totalCost + selected.cost * item.quantity,
                      !.totalItems = b.totalItems + item.quantity]]

\* Array.from(productsBySupplier.values())
MapValues(map) ==
    [k \in DOMAIN map |->
        [supplierId |-> map[k].supplierId, items |-> map[k].items,
         totalCost |-> map[k].totalCost, totalItems |-> map[k].totalItems]]

\* The per-item diagnostics carried by the value calculateOptimalRouting
\* returns: the value is the array of buckets and nothing else.
RoutingDiagnostics(plan) == <<>>

\* One iteration of the loop over lineItems: the findFirst and what follows
\* it up to the next await.
RouteItem(c) ==
    /\ pc[c] = "route"
    /\ rt[c].i <= Len(req[c].shopifyOrder.line_items)
    /\ LET item == req[c].shopifyOrder.line_items[rt[c].i]
           matches == MatchingProducts(item, req[c].store)
       IN  \E product \in (IF matches = {} THEN {NoProduct} ELSE matches) :
             \E sps \in (IF product = NoProduct THEN {<<>>}
                         ELSE Orderings(InStockOffers(product))) :
               rt' = [rt EXCEPT ![c] =
                        [i |-> rt[c].i + 1,
                         returned |-> FALSE,
                         found |-> Append(rt[c].found, product.id),
                         productsBySupplier |->
                            IF Routable(product, sps)
                            THEN AddToBucket(rt[c].productsBySupplier, product, item,
                                             SelectSupplier(product, sps))
                            ELSE rt[c].productsBySupplier]]
    /\ UNCHANGED <<catalogVars, syncVars, orderVars, pc, req, order, routing, wr, response,
                   thrown>>

\* The loop is over: the plan is returned to processOrder.
RouteReturn(c) ==
    /\ pc[c] = "route"
    /\ rt[c].i > Len(req[c].shopifyOrder.line_items)
    /\ routing' = [routing EXCEPT ![c] = MapValues(rt[c].productsBySupplier)]
    /\ rt' = [rt EXCEPT ![c].returned = TRUE]
    /\ pc' = [pc EXCEPT ![c] = "items"]
    /\ UNCHANGED <<catalogVars, syncVars, orderVars, req, order, wr, response, thrown>>

----------------------------------------------------------------------------
(* routes/webhooks.js: POST /orders/create, and OrderService.processOrder *)

\* prisma.store.findUnique({ where: { shopDomain } }): the store id, or Null.
FindStore(shopDomain) ==
    IF \E s \in Stores : s.shopDomain = shopDomain
    THEN (CHOOSE s \in Stores : s.shopDomain = shopDomain).id
    ELSE Null

\* An Order table that enforces no uniqueness.
OrderRefTaken_Unenforced(shopifyOrderId, storeId) == FALSE

\* The uniqueness the Order table enforces on the external order reference:
\* an insert of a (shopifyOrderId, storeId) that is already there is refused.
OrderRefTaken(shopifyOrderId, storeId) ==
    \E o \in orders : o.shopifyOrderId = shopifyOrderId /\ o.storeId = storeId

\* The OrderItem rows of one Order (include: { orderItems }).
ItemsOfOrder(orderId) ==
    { k \in DOMAIN orderItems : orderItems[k].orderId = orderId }

\* GET /recent: the orders of a store with their items, as a reader sees them.
RecentOrders(storeId) ==
    { [order |-> o, orderItems |-> { orderItems[k] : k \in ItemsOfOrder(o.id) }] :
        o \in { x \in orders : x.storeId = storeId } }

\* The items of a plan in the order the two nested loops of processOrder
\* visit them, each with its bucket's supplierId.
RECURSIVE PlanEntries(_)
PlanEntries(plan) ==
    IF plan = <<>> THEN <<>>
    ELSE [k \in DOMAIN plan[1].items |->
            [supplierId |-> plan[1].supplierId, item |-> plan[1].items[k]]]
         \o PlanEntries(Tail(plan))

\* The row with one unit per item whatever the routed quantity.
OrderItemRow_UnitQuantity(id, orderId, entry) ==
    [id |-> id, orderId |-> orderId, productId |-> entry.item.productId,
     supplierId |-> entry.supplierId, quantity |-> 1,
     unitCost |-> entry.item.cost,
     totalCost |-> entry.item.cost,
     supplierSku |-> entry.item.supplierSku]

\* The row with the unit cost written as its total.
OrderItemRow_TotalIsUnit(id, orderId, entry) ==
    [id |-> id, orderId |-> orderId, productId |-> entry.item.productId,
     supplierId |-> entry.supplierId, quantity |-> entry.item.quantity,
     unitCost |-> entry.item.cost,
     totalCost |-> entry.item.cost,
     supplierSku |-> entry.item.supplierSku]

\* The row prisma.orderItem.create inserts (id is generated by the store).
OrderItemRow(id, orderId, entry) ==
    [id |-> id, orderId |-> orderId, productId |-> entry.item.productId,
     supplierId |-> entry.supplierId, quantity |-> entry.item.quantity,
     unitCost |-> entry.item.cost,
     totalCost |-> entry.item.cost * entry.item.quantity,
     supplierSku |-> entry.item.supplierSku]

\* A delivery passed on to the handler whatever its HMAC.
Deliver_Unverified(c) ==
    /\ pc[c] = "idle"
    /\ \A d \in Calls : d < c => pc[d] # "idle"
    /\ \E body \in ShopifyOrders, valid \in BOOLEAN :
          /\ req' = [req EXCEPT ![c] = [shopifyOrder |-> body, shopDomain |-> Null,
                                        hmacValid |-> valid, store |-> Null]]
          /\ pc' = [pc EXCEPT ![c] = "store"]
          /\ UNCHANGED response
    /\ UNCHANGED <<catalogVars, syncVars, orderVars, order, rt, routing, wr, thrown>>

\* A delivery arrives (deliveries are numbered in the order they arrive);
\* verifyWebhook compares the HMAC of the body.
Deliver(c) ==
    /\ pc[c] = "idle"
    /\ \A d \in Calls : d < c => pc[d] # "idle"
    /\ \E body \in ShopifyOrders, valid \in BOOLEAN :
          /\ req' = [req EXCEPT ![c] = [shopifyOrder |-> body, shopDomain |-> Null,
                                        hmacValid |-> valid, store |-> Null]]
          /\ IF valid
             THEN /\ pc' = [pc EXCEPT ![c] = "store"]
                  /\ UNCHANGED response
             ELSE /\ pc' = [pc EXCEPT ![c] = "done"]
                  /\ response' = [response EXCEPT ![c] = 401]
    /\ UNCHANGED <<catalogVars, syncVars, orderVars, order, rt, routing, wr, thrown>>

\* const shopDomain = req.get('X-Shopify-Shop-Domain');
\* const store = await prisma.store.findUnique(...); if (store) ...
LookupStore(c) ==
    /\ pc[c] = "store"
    /\ \E domain \in ShopDomains :
        LET store == FindStore(domain)
        IN /\ req' = [req EXCEPT ![c].shopDomain = domain, ![c].store = store]
           /\ IF store # Null
              THEN /\ pc' = [pc EXCEPT ![c] = "create"]
                   /\ UNCHANGED response
              ELSE /\ pc' = [pc EXCEPT ![c] = "done"]
                   /\ response' = [response EXCEPT ![c] = 200]
    /\ UNCHANGED <<catalogVars, syncVars, orderVars, order, rt, routing, wr, thrown>>

\* catch (error) { throw error } in processOrder, then the catch of the
\* webhook handler: status 500.
Fail(c, error) ==
    /\ thrown' = [thrown EXCEPT ![c] = error]
    /\ pc' = [pc EXCEPT ![c] = "done"]
    /\ response' = [response EXCEPT ![c] = 500]

\* const order = await prisma.order.create(...)
CreateOrder(c) ==
    /\ pc[c] = "create"
    /\ IF OrderRefTaken(req[c].shopifyOrder.id, req[c].store)
       THEN /\ Fail(c, "UniqueConstraint")
            /\ UNCHANGED <<orders, order>>
       ELSE LET id == Cardinality(orders) + 1
            IN  /\ orders' = orders \cup
                       {[id |-> id, shopifyOrderId |-> req[c].shopifyOrder.id,
                         storeId |-> req[c].store]}
                /\ order' = [order EXCEPT ![c] = id]
                /\ pc' = [pc EXCEPT ![c] = "route"]
                /\ UNCHANGED <<response, thrown>>
    /\ UNCHANGED <<catalogVars, syncVars, orderItems, submitted, req, rt, routing, wr>>

\* await prisma.orderItem.create(...) for the next item of the plan
CreateOrderItem(c) ==
    /\ pc[c] = "items"
    /\ wr[c] <= Len(PlanEntries(routing[c]))
    /\ orderItems' = Append(orderItems,
                            OrderItemRow(Len(orderItems) + 1, order[c],
                                         PlanEntries(routing[c])[wr[c]]))
    /\ wr' = [wr EXCEPT ![c] = wr[c] + 1]
    /\ UNCHANGED <<catalogVars, syncVars, orders, submitted, pc, req, order, rt, routing,
                   response, thrown>>

\* The submission called while OrderItems are still to be written.
SubmitAndReturn_Early(c) ==
    /\ pc[c] = "items"
    /\ submitted' = submitted \cup {order[c]}
    /\ pc' = [pc EXCEPT ![c] = "done"]
    /\ response' = [response EXCEPT ![c] = 200]
    /\ UNCHANGED <<catalogVars, syncVars, orders, orderItems, req, order, rt, routing, wr,
                   thrown>>

\* await this.submitOrdersToSuppliers(order.id, routing); return order;
\* the handler then answers 200.
SubmitAndReturn(c) ==
    /\ pc[c] = "items"
    /\ wr[c] > Len(PlanEntries(routing[c]))
    /\ submitted' = submitted \cup {order[c]}
    /\ pc' = [pc EXCEPT ![c] = "done"]
    /\ response' = [response EXCEPT ![c] = 200]
    /\ UNCHANGED <<catalogVars, syncVars, orders, orderItems, req, order, rt, routing, wr,
                   thrown>>

\* A storage fault: the pending order.create or orderItem.create rejects.
StorageFault(c) ==
    /\ pc[c] = "create" \/ (pc[c] = "items" /\ wr[c] <= Len(PlanEntries(routing[c])))
    /\ Fail(c, "StorageFault")
    /\ UNCHANGED <<catalogVars, syncVars, orderVars, req, order, rt, routing, wr>>

----------------------------------------------------------------------------
(* Supplier sync: SyncService.syncStoreSuppliers, the three sync functions *)
(* of SupplierService, upsertProduct and logSync, for store s1.            *)

SupplierNames == { s.name : s \in Suppliers }

\* Supplier tables the sync runs on: every supplier seeded, or the row of
\* honeysplace missing.
SupplierTables == { Suppliers, { s \in Suppliers : s.name # "honeysplace" } }

\* A product as upsertProduct creates it: the UPC of the feed record, no
\* Shopify id, no lock.
SyncedProduct(id, storeId, upc) ==
    [Product(id, storeId, Null, Null, FALSE, Null) EXCEPT !.upc = upc]

\* The catalog before the sync: store s1 has the product of UPC u1, listed
\* in the shop, with an offer of each supplier; UPC u2 is known to store s2
\* only.
SyncCatalog ==
    [products |-> { [Product(1, "s1", "sp1", "k1", FALSE, Null) EXCEPT !.upc = "u1"],
                    SyncedProduct(3, "s2", "u2") },
     supplierProducts |->
        { Offer(1, 1, 10, 5), Offer(1, 2, 9, 4), Offer(1, 3, 10, 5),
          Offer(3, 1, 8, 3) }]

\* A feed record: the fields upsertProduct reads, as the raw strings of
\* the feed (Null: the field is missing).
ProductData(upc, cost, price, inventory) ==
    [upc |-> upc, sku |-> <<"feed", upc>>, cost |-> cost, price |-> price,
     inventory |-> inventory]

NoProductData == ProductData(Null, Null, Null, Null)

\* Feeds a supplier's API answers with: a plain record for a known and for
\* a new UPC, a negative cost, a negative inventory, cost and inventory
\* missing, a cost that is not a number, the same UPC twice with different
\* values, and a good record followed by a bad one.
Feeds ==
    { <<>>,
      <<ProductData("u1", "8", Null, "3")>>,
      <<ProductData("u2", "8", Null, "3")>>,
      <<ProductData("u2", "-1", Null, "3")>>,
      <<ProductData("u2", "8", Null, "-2")>>,
      <<ProductData("u2", Null, "10", Null)>>,
      <<ProductData("u2", "n/a", Null, "3")>>,
      <<ProductData("u1", "8", Null, "3"), ProductData("u1", "10", Null, "5")>>,
      <<ProductData("u2", "8", Null, "3"), ProductData("u1", "n/a", Null, "3")>> }

\* parseTSVFile returns [] whatever the file holds.
ParseTSVFile == <<>>

FeedsOf(name) == IF name = "eldorado" THEN {ParseTSVFile} ELSE Feeds

\* JavaScript numbers as far as the sync needs them: a number or NaN.
Num(n) == [nan |-> FALSE, n |-> n]
NaN == [nan |-> TRUE, n |-> 0]

\* a || b
OrElse(a, b) == IF a \in {Null, ""} THEN b ELSE a

ParseFloat(v) ==
    CASE v = "8" -> Num(8)
      [] v = "10" -> Num(10)
      [] v = "-1" -> Num(0 - 1)
      [] OTHER -> NaN

ParseInt(v) ==
    CASE v = "0" -> Num(0)
      [] v = "3" -> Num(3)
      [] v = "5" -> Num(5)
      [] v = "-2" -> Num(0 - 2)
      [] OTHER -> NaN

\* Locals of one supplier sync before it is started.
NoSync ==
    [pc |-> "off", products |-> <<>>, i |-> 1, productData |-> NoProductData,
     supplier |-> 0, product |-> 0, thrown |-> Null]

SyncIdle ==
    /\ storeActive = [s \in { st.id : st \in Stores } |-> TRUE]
    /\ syncLogs = <<>>
    /\ syncPc = "idle"
    /\ syncPromises = {}
    /\ sync = [n \in SupplierNames |-> NoSync]
    /\ lastUpsert = {}

\* The head of `for (const product of products)`: the next record goes to
\* upsertProduct, or the loop is over and the success is logged.
LoopHead(st, i) ==
    IF i <= Len(st.products)
    THEN [st EXCEPT !.i = i, !.pc = "supplier", !.productData = st.products[i],
                    !.supplier = 0, !.product = 0]
    ELSE [st EXCEPT !.i = i, !.pc = "logok", !.productData = NoProductData,
                    !.supplier = 0, !.product = 0]

\* The body of syncStoreSuppliers up to its await: the syncs of the
\* suppliers the store has credentials for are started and awaited together.
StartSyncs ==
    /\ \E configured \in SUBSET SupplierNames :
          /\ syncPromises' = configured
          /\ sync' = [n \in SupplierNames |->
                        IF n \in configured THEN [NoSync EXCEPT !.pc = "fetch"]
                        ELSE NoSync]
    /\ syncPc' = "settling"

\* syncStoreSuppliers: one sync is started for each supplier the store has
\* credentials for; each runs up to its first await.
SyncStoreSuppliers ==
    /\ syncPc = "idle"
    /\ StartSyncs
    /\ UNCHANGED <<catalogVars, orderVars, callVars, suppliers, storeActive, syncLogs, lastUpsert>>

\* The feed arrives (axios.get resolves, or the TSV file is fetched and
\* parsed).
FetchFeed(n) ==
    /\ sync[n].pc = "fetch"
    /\ \E feed \in FeedsOf(n) :
          sync' = [sync EXCEPT ![n] = LoopHead([@ EXCEPT !.products = feed], 1)]
    /\ UNCHANGED <<catalogVars, orderVars, callVars, suppliers, storeActive, syncLogs, syncPc,
                   syncPromises, lastUpsert>>

\* The fetch throwing and taking the syncs still running down with it.
FetchThrows_AbortsSiblings(n) ==
    /\ sync[n].pc = "fetch"
    /\ sync' = [m \in SupplierNames |->
                  IF m = n \/ sync[m].pc \in {"supplier", "find", "create", "upsert"}
                  THEN [sync[m] EXCEPT !.pc = "logerr", !.thrown = "FetchError"]
                  ELSE sync[m]]
    /\ UNCHANGED <<catalogVars, orderVars, callVars, suppliers, storeActive, syncLogs, syncPc,
                   syncPromises, lastUpsert>>

\* The fetch throws: the catch block of the sync function takes over.
FetchThrows(n) ==
    /\ sync[n].pc = "fetch"
    /\ sync' = [sync EXCEPT ![n].pc = "logerr", ![n].thrown = "FetchError"]
    /\ UNCHANGED <<catalogVars, orderVars, callVars, suppliers, storeActive, syncLogs, syncPc,
                   syncPromises, lastUpsert>>

\* The lookup going on to the product without a Supplier row.
FindSupplier_Unchecked(n) ==
    /\ sync[n].pc = "supplier"
    /\ sync' = [sync EXCEPT ![n].pc = "find",
                            ![n].supplier = (CHOOSE r \in Suppliers : r.name = n).id]
    /\ UNCHANGED <<catalogVars, orderVars, callVars, suppliers, storeActive, syncLogs, syncPc,
                   syncPromises, lastUpsert>>

\* upsertProduct: prisma.supplier.findUnique({ name }); without the row the
\* record is skipped.
FindSupplier(n) ==
    /\ sync[n].pc = "supplier"
    /\ LET rows == { r \in suppliers : r.name = n }
       IN  IF rows = {}
           THEN sync' = [sync EXCEPT ![n] = LoopHead(@, @.i + 1)]
           ELSE sync' = [sync EXCEPT ![n].pc = "find",
                                     ![n].supplier = (CHOOSE r \in rows : TRUE).id]
    /\ UNCHANGED <<catalogVars, orderVars, callVars, suppliers, storeActive, syncLogs, syncPc,
                   syncPromises, lastUpsert>>

\* upsertProduct: prisma.product.findFirst({ upc, storeId }), any matching
\* row; with no row the product is created next.
FindProduct(n) ==
    /\ sync[n].pc = "find"
    /\ LET matches == { p \in products :
                          p.upc = sync[n].productData.upc /\ p.storeId = "s1" }
       IN  IF matches = {}
           THEN sync' = [sync EXCEPT ![n].pc = "create"]
           ELSE \E p \in matches :
                   sync' = [sync EXCEPT ![n].pc = "upsert", ![n].product = p.id]
    /\ UNCHANGED <<catalogVars, orderVars, callVars, suppliers, storeActive, syncLogs, syncPc,
                   syncPromises, lastUpsert>>

\* The id the store gives a new Product row.
NextProductId ==
    1 + (CHOOSE m \in { p.id : p \in products } :
            \A p \in products : p.id <= m)

\* upsertProduct: prisma.product.create.
CreateProduct(n) ==
    /\ sync[n].pc = "create"
    /\ products' = products \cup
          {SyncedProduct(NextProductId, "s1", sync[n].productData.upc)}
    /\ sync' = [sync EXCEPT ![n].pc = "upsert", ![n].product = NextProductId]
    /\ UNCHANGED <<supplierProducts, orderVars, callVars, suppliers, storeActive, syncLogs,
                   syncPc, syncPromises, lastUpsert>>

\* prisma.supplierProduct.upsert on the key (productId, supplierId): update
\* sets cost and inventory, create inserts the row.
UpsertRow_Insert(rows, productId, supplierId, sku, cost, inventory) ==
    rows \cup {[productId |-> productId, supplierId |-> supplierId,
                cost |-> cost, inventory |-> inventory, supplierSku |-> sku]}

\* The upsert writing the whole row anew, supplierSku included.
UpsertRow_Replace(rows, productId, supplierId, sku, cost, inventory) ==
    { r \in rows : ~(r.productId = productId /\ r.supplierId = supplierId) }
    \cup {[productId |-> productId, supplierId |-> supplierId,
           cost |-> cost, inventory |-> inventory, supplierSku |-> sku]}

UpsertRow(rows, productId, supplierId, sku, cost, inventory) ==
    LET old == { r \in rows : r.productId = productId /\ r.supplierId = supplierId }
    IN  IF old = {}
        THEN rows \cup {[productId |-> productId, supplierId |-> supplierId,
                         cost |-> cost, inventory |-> inventory,
                         supplierSku |-> sku]}
        ELSE (rows \ old) \cup
             { [r EXCEPT !.cost = cost, !.inventory = inventory] : r \in old }

\* The upsert that also reprices the OrderItems of the offer.
UpsertSupplierProduct_Reprices(n) ==
    /\ sync[n].pc = "upsert"
    /\ LET data == sync[n].productData
           cost == ParseFloat(OrElse(data.cost, data.price))
           inventory == ParseInt(OrElse(data.inventory, "0"))
           key == [productId |-> sync[n].product, supplierId |-> sync[n].supplier]
       IN  IF cost.nan \/ inventory.nan
           THEN /\ sync' = [sync EXCEPT ![n].pc = "logerr",
                                        ![n].thrown = "ValidationError"]
                /\ UNCHANGED <<supplierProducts, lastUpsert, orderItems>>
           ELSE /\ supplierProducts' =
                      UpsertRow(supplierProducts, key.productId, key.supplierId,
                                data.sku, cost.n, inventory.n)
                /\ lastUpsert' =
                      { u \in lastUpsert : u.key # key }
                      \cup {[key |-> key, cost |-> cost.n, inventory |-> inventory.n]}
                /\ orderItems' =
                      [k \in DOMAIN orderItems |->
                          IF /\ orderItems[k].productId = key.productId
                             /\ orderItems[k].supplierId = key.supplierId
                          THEN [orderItems[k] EXCEPT
                                   !.unitCost = cost.n,
                                   !.totalCost = cost.n * orderItems[k].quantity]
                          ELSE orderItems[k]]
                /\ sync' = [sync EXCEPT ![n] = LoopHead(@, @.i + 1)]
    /\ UNCHANGED <<products, orders, submitted, callVars, suppliers, storeActive,
                   syncLogs, syncPc, syncPromises>>

\* upsertProduct: the upsert of the offer with cost parseFloat(cost || price)
\* and inventory parseInt(inventory || 0). A NaN is not a value of a numeric
\* column: the store client rejects the call and the sync function's catch
\* block takes over.
UpsertSupplierProduct(n) ==
    /\ sync[n].pc = "upsert"
    /\ LET data == sync[n].productData
           cost == ParseFloat(OrElse(data.cost, data.price))
           inventory == ParseInt(OrElse(data.inventory, "0"))
           key == [productId |-> sync[n].product, supplierId |-> sync[n].supplier]
       IN  IF cost.nan \/ inventory.nan
           THEN /\ sync' = [sync EXCEPT ![n].pc = "logerr",
                                        ![n].thrown = "ValidationError"]
                /\ UNCHANGED <<supplierProducts, lastUpsert>>
           ELSE /\ supplierProducts' =
                      UpsertRow(supplierProducts, key.productId, key.supplierId,
                                data.sku, cost.n, inventory.n)
                /\ lastUpsert' =
                      { u \in lastUpsert : u.key # key }
                      \cup {[key |-> key, cost |-> cost.n, inventory |-> inventory.n]}
                /\ sync' = [sync EXCEPT ![n] = LoopHead(@, @.i + 1)]
    /\ UNCHANGED <<products, orderVars, callVars, suppliers, storeActive, syncLogs, syncPc,
                   syncPromises>>

\* The row logSync creates; supplierId is the supplier's name.
SyncLogRow(storeId, supplierId, syncType, status, recordsProcessed, message) ==
    [storeId |-> storeId, supplierId |-> supplierId, syncType |-> syncType,
     status |-> status, message |-> message,
     recordsProcessed |-> recordsProcessed]

\* End of the try block: logSync(store.id, name, 'products', 'success',
\* products.length).
LogSuccess(n) ==
    /\ sync[n].pc = "logok"
    /\ syncLogs' = Append(syncLogs,
          SyncLogRow("s1", n, "products", "success", Len(sync[n].products), Null))
    /\ sync' = [sync EXCEPT ![n].pc = "settled"]
    /\ UNCHANGED <<catalogVars, orderVars, callVars, suppliers, storeActive, syncPc,
                   syncPromises, lastUpsert>>

\* The catch block: logSync(store.id, name, 'products', 'error', 0,
\* error.message).
LogError(n) ==
    /\ sync[n].pc = "logerr"
    /\ syncLogs' = Append(syncLogs,
          SyncLogRow("s1", n, "products", "error", 0, sync[n].thrown))
    /\ sync' = [sync EXCEPT ![n].pc = "settled"]
    /\ UNCHANGED <<catalogVars, orderVars, callVars, suppliers, storeActive, syncPc,
                   syncPromises, lastUpsert>>

\* Promise.allSettled resolves when every started sync has settled.
AllSettled ==
    /\ syncPc = "settling"
    /\ \A n \in syncPromises : sync[n].pc = "settled"
    /\ syncPc' = "done"
    /\ UNCHANGED <<catalogVars, orderVars, callVars, suppliers, storeActive, syncLogs,
                   syncPromises, sync, lastUpsert>>

\* The scheduled job calls syncAllSuppliers, which asks for the stores to
\* sync.
SyncAllSuppliers ==
    /\ syncPc = "job"
    /\ syncPc' = "stores"
    /\ UNCHANGED <<catalogVars, orderVars, callVars, suppliers, storeActive, syncLogs,
                   syncPromises, sync, lastUpsert>>

\* prisma.store.findMany({ isActive: true, autoSync: true }) answers and the
\* loop over its result starts: store s1 is synced when it was active at the
\* time of the query (store s2 has autoSync off).
FindStores ==
    /\ syncPc = "stores"
    /\ IF storeActive["s1"]
       THEN StartSyncs
       ELSE syncPc' = "done" /\ UNCHANGED <<syncPromises, sync>>
    /\ UNCHANGED <<catalogVars, orderVars, callVars, suppliers, storeActive, syncLogs,
                   lastUpsert>>

\* POST /app/uninstalled of a store: isActive is set to false.
Uninstall(s) ==
    /\ storeActive' = [storeActive EXCEPT ![s] = FALSE]
    /\ UNCHANGED <<catalogVars, orderVars, callVars, suppliers, syncLogs, syncPc,
                   syncPromises, sync, lastUpsert>>

\* GET /auth/callback of a shop: the store is upserted with isActive true.
AuthCallback(s) ==
    /\ storeActive' = [storeActive EXCEPT ![s] = TRUE]
    /\ UNCHANGED <<catalogVars, orderVars, callVars, suppliers, syncLogs, syncPc,
                   syncPromises, sync, lastUpsert>>

----------------------------------------------------------------------------
(* Specifications *)

Idle ==
    /\ orders = {}
    /\ orderItems = <<>>
    /\ submitted = {}
    /\ pc = [c \in Calls |-> "idle"]
    /\ req = [c \in Calls |-> NoRequest]
    /\ order = [c \in Calls |-> 0]
    /\ rt = [c \in Calls |-> NoRouting]
    /\ routing = [c \in Calls |-> <<>>]
    /\ wr = [c \in Calls |-> 1]
    /\ response = [c \in Calls |-> 0]
    /\ thrown = [c \in Calls |-> Null]
    /\ suppliers = Suppliers
    /\ SyncIdle

\* The order webhook: deliveries of orders to the stores, interleaved.
Init ==
    /\ \E cat \in OrderCatalogs :
          /\ products = cat.products
          /\ supplierProducts = cat.supplierProducts
    /\ Idle

Next ==
    \E c \in Calls :
        \/ Deliver(c)
        \/ LookupStore(c)
        \/ CreateOrder(c)
        \/ RouteItem(c)
        \/ RouteReturn(c)
        \/ CreateOrderItem(c)
        \/ SubmitAndReturn(c)
        \/ StorageFault(c)

Spec == Init /\ [][Next]_vars

\* The router alone: one call of calculateOptimalRouting for store s1 on
\* every catalog of RouteCatalogs and every sequence of line items.
RouteInit ==
    /\ \E cat \in RouteCatalogs :
          /\ products = cat.products
          /\ supplierProducts = cat.supplierProducts
    /\ orders = {}
    /\ orderItems = <<>>
    /\ submitted = {}
    /\ pc = [c \in Calls |-> IF c = 1 THEN "route" ELSE "idle"]
    /\ \E items \in SeqsUpTo(LineItems, MaxItems) :
          req = [c \in Calls |->
                   IF c = 1
                   THEN [shopifyOrder |-> [id |-> 1001, line_items |-> items],
                         shopDomain |-> "one.myshopify.com",
                         hmacValid |-> TRUE, store |-> "s1"]
                   ELSE NoRequest]
    /\ order = [c \in Calls |-> 0]
    /\ rt = [c \in Calls |-> NoRouting]
    /\ routing = [c \in Calls |-> <<>>]
    /\ wr = [c \in Calls |-> 1]
    /\ response = [c \in Calls |-> 0]
    /\ thrown = [c \in Calls |-> Null]
    /\ suppliers = Suppliers
    /\ SyncIdle

RouteNext == RouteItem(1) \/ RouteReturn(1)

SpecRoute == RouteInit /\ [][RouteNext]_vars

\* The router run twice on the same catalog and the same line items: two
\* calls of calculateOptimalRouting with equal arguments.
RoutePairInit ==
    /\ \E cat \in RouteCatalogs :
          /\ products = cat.products
          /\ supplierProducts = cat.supplierProducts
    /\ orders = {}
    /\ orderItems = <<>>
    /\ submitted = {}
    /\ pc = [c \in Calls |-> IF c \in {1, 2} THEN "route" ELSE "idle"]
    /\ \E items \in SeqsUpTo(LineItems, MaxItems) :
          req = [c \in Calls |->
                   IF c \in {1, 2}
                   THEN [shopifyOrder |-> [id |-> 1001, line_items |-> items],
                         shopDomain |-> "one.myshopify.com",
                         hmacValid |-> TRUE, store |-> "s1"]
                   ELSE NoRequest]
    /\ order = [c \in Calls |-> 0]
    /\ rt = [c \in Calls |-> NoRouting]
    /\ routing = [c \in Calls |-> <<>>]
    /\ wr = [c \in Calls |-> 1]
    /\ response = [c \in Calls |-> 0]
    /\ thrown = [c \in Calls |-> Null]
    /\ suppliers = Suppliers
    /\ SyncIdle

RoutePairNext == \E c \in {1, 2} : RouteItem(c) \/ RouteReturn(c)

SpecRoutePair == RoutePairInit /\ [][RoutePairNext]_vars

\* An order of store s1 committed before the sync: two units of product 1
\* routed to nalpac at unit cost 10.
PastOrderItems ==
    << OrderItemRow(1, 1,
          [supplierId |-> 1,
           item |-> [productId |-> 1, quantity |-> 2, cost |-> 10,
                     supplierSku |-> Offer(1, 1, 10, 5).supplierSku]]) >>

PastOrder ==
    /\ orders = {[id |-> 1, shopifyOrderId |-> 1001, storeId |-> "s1"]}
    /\ orderItems = PastOrderItems
    /\ submitted = {1}

\* One run of syncStoreSuppliers for store s1, its supplier syncs
\* interleaved at their awaits.
SyncInit ==
    /\ products = SyncCatalog.products
    /\ supplierProducts = SyncCatalog.supplierProducts
    /\ suppliers \in SupplierTables
    /\ SyncIdle
    /\ PastOrder
    /\ pc = [c \in Calls |-> "idle"]
    /\ req = [c \in Calls |-> NoRequest]
    /\ order = [c \in Calls |-> 0]
    /\ rt = [c \in Calls |-> NoRouting]
    /\ routing = [c \in Calls |-> <<>>]
    /\ wr = [c \in Calls |-> 1]
    /\ response = [c \in Calls |-> 0]
    /\ thrown = [c \in Calls |-> Null]

SyncNext ==
    \/ SyncStoreSuppliers
    \/ AllSettled
    \/ \E n \in SupplierNames :
          \/ FetchFeed(n)
          \/ FetchThrows(n)
          \/ FindSupplier(n)
          \/ FindProduct(n)
          \/ CreateProduct(n)
          \/ UpsertSupplierProduct(n)
          \/ LogSuccess(n)
          \/ LogError(n)

SpecSync == SyncInit /\ [][SyncNext]_vars

\* What the event loop guarantees of a sync that has been started: every
\* store call (lookup, create, upsert, log) is answered and the code after
\* it runs, and Promise.allSettled resolves once every sync has settled.
\* Nothing is assumed of the supplier: the answer to a fetch (FetchFeed,
\* FetchThrows) may never come, and the code sets no timeout on it.
SyncFairness ==
    /\ WF_vars(AllSettled)
    /\ \A n \in SupplierNames :
          WF_vars(\/ FindSupplier(n)
                  \/ FindProduct(n)
                  \/ CreateProduct(n)
                  \/ UpsertSupplierProduct(n)
                  \/ LogSuccess(n)
                  \/ LogError(n))

SpecSyncLive == SyncInit /\ [][SyncNext]_vars /\ SyncFairness

\* One run of the scheduled syncAllSuppliers job, with uninstall webhooks
\* and OAuth callbacks of the stores arriving at any time.
JobInit ==
    /\ products = SyncCatalog.products
    /\ supplierProducts = SyncCatalog.supplierProducts
    /\ suppliers \in SupplierTables
    /\ storeActive \in [{ st.id : st \in Stores } -> BOOLEAN]
    /\ syncLogs = <<>>
    /\ syncPc = "job"
    /\ syncPromises = {}
    /\ sync = [n \in SupplierNames |-> NoSync]
    /\ lastUpsert = {}
    /\ PastOrder
    /\ pc = [c \in Calls |-> "idle"]
    /\ req = [c \in Calls |-> NoRequest]
    /\ order = [c \in Calls |-> 0]
    /\ rt = [c \in Calls |-> NoRouting]
    /\ routing = [c \in Calls |-> <<>>]
    /\ wr = [c \in Calls |-> 1]
    /\ response = [c \in Calls |-> 0]
    /\ thrown = [c \in Calls |-> Null]

JobNext ==
    \/ SyncAllSuppliers
    \/ FindStores
    \/ AllSettled
    \/ \E s \in { st.id : st \in Stores } : Uninstall(s) \/ AuthCallback(s)
    \/ \E n \in SupplierNames :
          \/ FetchFeed(n)
          \/ FetchThrows(n)
          \/ FindSupplier(n)
          \/ FindProduct(n)
          \/ CreateProduct(n)
          \/ UpsertSupplierProduct(n)
          \/ LogSuccess(n)
          \/ LogError(n)

SpecJob == JobInit /\ [][JobNext]_vars

----------------------------------------------------------------------------
(* Properties of order persistence (Spec) *)

\* Two deliveries carry the same order for the same store.
SameOrder(c, d) ==
    /\ req[c].store # Null
    /\ req[c].store = req[d].store
    /\ req[c].shopifyOrder.id = req[d].shopifyOrder.id

SecondCommitReturnsFirst ==
    \A c, d \in Calls :
        ( /\ c # d
          /\ SameOrder(c, d)
          /\ order[d] # 0 /\ pc[d] = "done" /\ thrown[d] = Null
          /\ order[d] \in { o.id : o \in orders }
          /\ pc[c] = "done"
          /\ thrown[c] # "StorageFault" )
        => /\ order[c] = order[d]
           /\ thrown[c] = Null
           /\ response[c] = 200

\* The OrderItems a delivery's processOrder has decided on so far: the plan
\* once it is returned, the accumulated buckets while routing.
PlannedEntries(c) ==
    IF rt[c].returned THEN PlanEntries(routing[c])
    ELSE PlanEntries(MapValues(rt[c].productsBySupplier))

\* The delivery whose processOrder created an Order.
CreatorOf(orderId) == CHOOSE c \in Calls : order[c] = orderId

\* C3: Order and OrderItems are one atomic unit: every Order a reader of
\* GET /recent can see carries all the OrderItems of its routing plan.
AtomicCommit ==
    \A s \in Stores :
        \A r \in RecentOrders(s.id) :
            Cardinality(r.orderItems) = Len(PlannedEntries(CreatorOf(r.order.id)))

----------------------------------------------------------------------------
(* Properties of routing (SpecRoute) *)

\* The plan a call has built: the buckets accumulated so far, then the plan
\* it returned.
Plans(c) == IF rt[c].returned THEN {routing[c]}
            ELSE {MapValues(rt[c].productsBySupplier)}

\* The routed items of a plan with their bucket: <<plan, bucket, item>>.
Routed(c) ==
    { <<plan, b, k>> \in Plans(c) \X (1..MaxItems) \X (1..MaxItems) :
        b <= Len(plan) /\ k <= Len(plan[b].items) }

SelectedOfferOf(e) ==
    { sp \in supplierProducts :
        /\ sp.productId = e[1][e[2]].items[e[3]].productId
        /\ sp.supplierId = e[1][e[2]].supplierId }

ItemOf(e) == e[1][e[2]].items[e[3]]

HasStock(product) == { sp \in supplierProducts :
                         sp.productId = product.id /\ sp.inventory > 0 }

IsCheapestInStock(sp, product) ==
    /\ sp \in HasStock(product)
    /\ \A other \in HasStock(product) : sp.cost <= other.cost

\* C4: for a product that is not supplier-locked the selected offer is an
\* in-stock offer of minimum cost and its cost is the item's unit cost.
CheapestSelected ==
    \A c \in Calls : \A e \in Routed(c) :
        LET product == ProductById(ItemOf(e).productId)
        IN  ~product.isSupplierLocked =>
              \E sp \in SelectedOfferOf(e) :
                  /\ IsCheapestInStock(sp, product)
                  /\ ItemOf(e).cost = sp.cost

\* The example of the specification: offers nalpac 10/5 and honeysplace 8/3,
\* unlocked, one line item of quantity 2: honeysplace, unit cost 8, total 16.
CheapestExample ==
    /\ rt[1].returned
    /\ supplierProducts \cap { sp \in supplierProducts : sp.productId = 1 }
          = {Offer(1, 1, 10, 5), Offer(1, 2, 8, 3)}
    /\ ~ProductById(1).isSupplierLocked
    /\ req[1].shopifyOrder.line_items = <<LineItem("sp1", "k9", 2)>>
    /\ Len(routing[1]) = 1
    /\ routing[1][1].supplierId = 2
    /\ routing[1][1].items[1].cost = 8
    /\ routing[1][1].totalCost = 16

LockedTo(product) ==
    IF product.isSupplierLocked /\ product.preferredSupplier # Null
    THEN { sp \in HasStock(product) :
             SupplierOf(sp).name = product.preferredSupplier }
    ELSE {}

\* C5: for a locked product whose preferred supplier has an in-stock offer,
\* the preferred supplier's offer is selected, whatever the costs.
LockedPreferredSelected ==
    \A c \in Calls : \A e \in Routed(c) :
        LET product == ProductById(ItemOf(e).productId)
        IN  LockedTo(product) # {} =>
              /\ SelectedOfferOf(e) # {}
              /\ SelectedOfferOf(e) \subseteq LockedTo(product)
              /\ \A sp \in SelectedOfferOf(e) : ItemOf(e).cost = sp.cost

\* A locked product was routed to its preferred supplier although another
\* in-stock offer is strictly cheaper.
LockedDearerRouted ==
    \E e \in Routed(1) :
        LET product == ProductById(ItemOf(e).productId)
        IN  /\ rt[1].returned
            /\ LockedTo(product) # {}
            /\ \E sp \in SelectedOfferOf(e), other \in HasStock(product) :
                  other.cost < sp.cost

\* C6: an offer with inventory 0 is never selected: every routed item
\* refers to an offer whose inventory is positive.
InStockOnly ==
    \A c \in Calls : \A e \in Routed(c) :
        /\ SelectedOfferOf(e) # {}
        /\ \A sp \in SelectedOfferOf(e) : sp.inventory > 0

\* A product was routed while its locked preferred supplier, also the
\* cheapest, is out of stock.
OutOfStockPassedOver ==
    \E e \in Routed(1) :
        LET product == ProductById(ItemOf(e).productId)
        IN  /\ rt[1].returned
            /\ product.isSupplierLocked
            /\ \E sp \in supplierProducts :
                  /\ sp.productId = product.id
                  /\ sp.inventory = 0
                  /\ SupplierOf(sp).name = product.preferredSupplier
                  /\ \A other \in HasStock(product) : sp.cost < other.cost

\* C7: for a locked product whose preferred supplier has no in-stock offer,
\* the minimum-cost in-stock offer is selected, in whatever order the store
\* returns the offers.
LockedFallbackCheapest ==
    \A c \in Calls : \A e \in Routed(c) :
        LET product == ProductById(ItemOf(e).productId)
        IN  ( /\ product.isSupplierLocked
              /\ product.preferredSupplier # Null
              /\ LockedTo(product) = {} )
            => \E sp \in SelectedOfferOf(e) : IsCheapestInStock(sp, product)

\* C8: among several in-stock offers of minimum cost of an unlocked product
\* the one whose supplier name is first in ascending order is selected.
TieBreakByName ==
    \A c \in Calls : \A e \in Routed(c) :
        LET product == ProductById(ItemOf(e).productId)
        IN  ~product.isSupplierLocked =>
              \A sp \in SelectedOfferOf(e) :
                \A other \in HasStock(product) :
                    IsCheapestInStock(other, product) =>
                        NameRank(SupplierOf(sp).name) <= NameRank(SupplierOf(other).name)

\* A line item resolves when the product found for it has an in-stock offer.
Resolves(c, i) ==
    /\ rt[c].found[i] # 0
    /\ HasStock(ProductById(rt[c].found[i])) # {}

\* C9: the returned plan holds exactly the line items that resolve, each
\* once, with its product and its input quantity, and no other.
PartialRouting ==
    \A c \in Calls :
        rt[c].returned =>
            LET items == req[c].shopifyOrder.line_items
                entries == PlanEntries(routing[c])
            IN  /\ Len(rt[c].found) = Len(items)
                /\ Len(entries) = Cardinality({ i \in DOMAIN items : Resolves(c, i) })
                /\ \A p \in { x.id : x \in products }, q \in { items[i].quantity : i \in DOMAIN items } :
                      Cardinality({ k \in DOMAIN entries :
                                      entries[k].item.productId = p
                                      /\ entries[k].item.quantity = q })
                      = Cardinality({ i \in DOMAIN items :
                                        /\ Resolves(c, i)
                                        /\ rt[c].found[i] = p
                                        /\ items[i].quantity = q })

\* A plan was returned for an order of which one line item resolves and
\* another does not.
PartlyRouted ==
    /\ rt[1].returned
    /\ \E i, j \in DOMAIN req[1].shopifyOrder.line_items :
          Resolves(1, i) /\ ~Resolves(1, j)
    /\ routing[1] # <<>>

\* C10: the result of routing carries one diagnostic per line item that was
\* excluded from the plan.
DiagnosticPerExcludedItem ==
    \A c \in Calls :
        rt[c].returned =>
            Len(RoutingDiagnostics(routing[c]))
              = Cardinality({ i \in DOMAIN req[c].shopifyOrder.line_items :
                                ~Resolves(c, i) })

\* Every line item of a routed delivery failed to resolve.
NothingRoutes(c) ==
    /\ rt[c].returned
    /\ req[c].shopifyOrder.line_items # <<>>
    /\ \A i \in DOMAIN req[c].shopifyOrder.line_items : ~Resolves(c, i)

\* C11: when every line item fails to resolve, routing does not return an
\* empty successful plan and the webhook handler does not answer the
\* delivery as a success.
NoRoutableItemsSurfaced ==
    \A c \in Calls :
        (NothingRoutes(c) /\ pc[c] = "done") => response[c] # 200

\* C12: when every line item fails to resolve, processOrder leaves no Order
\* row and no OrderItem row behind.
NothingPersistedWhenNothingRoutes ==
    \A c \in Calls :
        NothingRoutes(c) =>
            /\ ~\E o \in orders : o.id = order[c]
            /\ ItemsOfOrder(order[c]) = {}

\* A delivery whose processOrder returned its Order.
Committed(c) == pc[c] = "done" /\ response[c] = 200 /\ order[c] # 0

RECURSIVE SumOver(_, _)
SumOver(S, f) ==
    IF S = {} THEN 0
    ELSE LET x == CHOOSE y \in S : TRUE IN f[x] + SumOver(S \ {x}, f)

\* Quantity of an Order's OrderItems for a product.
OrderItemQuantity(orderId, productId) ==
    LET rows == { k \in ItemsOfOrder(orderId) : orderItems[k].productId = productId }
    IN  SumOver(rows, [k \in rows |-> orderItems[k].quantity])

\* Quantity of the line items of a delivery that belong to a product, and
\* of those among them that resolve.
LineItemQuantity(c, productId) ==
    LET items == req[c].shopifyOrder.line_items
        lines == { i \in DOMAIN items : rt[c].found[i] = productId }
    IN  SumOver(lines, [i \in lines |-> items[i].quantity])

ResolvedQuantity(c, productId) ==
    LET items == req[c].shopifyOrder.line_items
        lines == { i \in DOMAIN items : rt[c].found[i] = productId /\ Resolves(c, i) }
    IN  SumOver(lines, [i \in lines |-> items[i].quantity])

\* C14 as stated: for every committed Order the OrderItem quantities per
\* Product equal the line-item quantities per Product.
QuantitiesReproduced ==
    \A c \in Calls : \A p \in products :
        Committed(c) => OrderItemQuantity(order[c], p.id) = LineItemQuantity(c, p.id)

\* C14: for every committed Order the OrderItem quantities per Product
\* equal the quantities per Product of the line items that resolved; a
\* line item that did not resolve has no OrderItem.
ResolvedQuantitiesReproduced ==
    \A c \in Calls : \A p \in products :
        Committed(c) => OrderItemQuantity(order[c], p.id) = ResolvedQuantity(c, p.id)

\* A committed Order with a routed line item and an excluded one.
CommittedPartly ==
    \E c \in Calls :
        /\ Committed(c)
        /\ \E p, q \in products :
              /\ ResolvedQuantity(c, p.id) > 0
              /\ OrderItemQuantity(order[c], p.id) = ResolvedQuantity(c, p.id)
              /\ LineItemQuantity(c, q.id) > 0
              /\ ResolvedQuantity(c, q.id) = 0
              /\ OrderItemQuantity(order[c], q.id) = 0

RECURSIVE SumCost(_)
SumCost(items) ==
    IF items = <<>> THEN 0
    ELSE items[1].cost * items[1].quantity + SumCost(Tail(items))

RECURSIVE SumQuantity(_)
SumQuantity(items) ==
    IF items = <<>> THEN 0 ELSE items[1].quantity + SumQuantity(Tail(items))

\* C13: in every bucket of a plan, totalCost is the sum of unit cost times
\* quantity over the bucket's items and totalItems the sum of quantities.
BucketTotals ==
    \A c \in Calls : \A plan \in Plans(c) : \A b \in DOMAIN plan :
        /\ plan[b].totalCost = SumCost(plan[b].items)
        /\ plan[b].totalItems = SumQuantity(plan[b].items)

\* The example of the specification: a bucket with items of quantity 2 and
\* 1 at unit cost 8 has totalCost 24 and totalItems 3.
BucketTotalsExample ==
    /\ rt[1].returned
    /\ \E b \in DOMAIN routing[1] :
          /\ Len(routing[1][b].items) = 2
          /\ routing[1][b].items[1].quantity = 2 /\ routing[1][b].items[1].cost = 8
          /\ routing[1][b].items[2].quantity = 1 /\ routing[1][b].items[2].cost = 8
          /\ routing[1][b].totalCost = 24
          /\ routing[1][b].totalItems = 3

\* The buckets of a plan, without their order.
Buckets(plan) == { plan[b] : b \in DOMAIN plan }

\* C20: two runs of calculateOptimalRouting on the same catalog and the
\* same line items return the same plan.
DeterministicRouting ==
    \A c, d \in Calls :
        (rt[c].returned /\ rt[d].returned /\ req[c] = req[d])
            => Buckets(routing[c]) = Buckets(routing[d])

----------------------------------------------------------------------------
(* Further properties of order persistence (Spec) *)

\* Number of item entries of a plan, over all its buckets.
EntryCount(plan) ==
    SumOver(DOMAIN plan, [b \in DOMAIN plan |-> Len(plan[b].items)])

\* The OrderItem row is the one of the bucket's item.
RowOfEntry(row, bucket, item) ==
    /\ row.supplierId = bucket.supplierId
    /\ row.productId = item.productId
    /\ row.quantity = item.quantity
    /\ row.unitCost = item.cost
    /\ row.supplierSku = item.supplierSku
    /\ row.totalCost = item.cost * item.quantity
    /\ \E sp \in supplierProducts :
          /\ sp.productId = item.productId /\ sp.supplierId = bucket.supplierId
          /\ sp.cost = row.unitCost /\ sp.supplierSku = row.supplierSku

\* C22: on a first commit processOrder creates exactly one OrderItem per
\* item entry of the plan, with the bucket's supplierId, the item's
\* productId and quantity, the selected offer's unit cost and supplier SKU,
\* and totalCost = unitCost * quantity.
OneOrderItemPerEntry ==
    \A c \in Calls :
        Committed(c) =>
            LET plan == routing[c]
                rows == ItemsOfOrder(order[c])
            IN  /\ Cardinality(rows) = EntryCount(plan)
                /\ \A b \in DOMAIN plan : \A k \in DOMAIN plan[b].items :
                      \E r \in rows : RowOfEntry(orderItems[r], plan[b], plan[b].items[k])
                /\ \A r \in rows :
                      \E b \in DOMAIN plan : \E k \in DOMAIN plan[b].items :
                          RowOfEntry(orderItems[r], plan[b], plan[b].items[k])

\* A committed order with two OrderItems, one of quantity 2.
TwoItemsCommitted ==
    \E c \in Calls :
        /\ Committed(c)
        /\ Cardinality(ItemsOfOrder(order[c])) = 2
        /\ \E r \in ItemsOfOrder(order[c]) :
              orderItems[r].quantity = 2 /\ orderItems[r].totalCost = 2 * orderItems[r].unitCost

\* C24: the submission is called for an order only after its Order row and
\* all OrderItems of its plan are written, and never for an order whose
\* Order or OrderItem write failed.
SubmittedAfterCommit ==
    /\ \A o \in submitted :
          \E c \in Calls :
              /\ order[c] = o
              /\ thrown[c] = Null
              /\ rt[c].returned
              /\ \E row \in orders : row.id = o
              /\ Cardinality(ItemsOfOrder(o)) = EntryCount(routing[c])
    /\ \A c \in Calls : thrown[c] # Null => order[c] \notin submitted

\* An order with OrderItems has been handed to the submission while
\* another delivery failed on a write.
SubmittedWithItems ==
    /\ \E o \in submitted : ItemsOfOrder(o) # {}
    /\ \E c \in Calls : thrown[c] = "StorageFault"

\* C25: a storage fault on the Order or an OrderItem write is answered with
\* an error status, and a retry of the same order that meets no fault ends
\* with exactly one Order holding all the OrderItems of its plan.
RetryCompletes ==
    /\ \A c \in Calls : thrown[c] = "StorageFault" => response[c] = 500
    /\ \A c, d \in Calls :
          ( /\ c < d /\ SameOrder(c, d)
            /\ pc[c] = "done" /\ thrown[c] = "StorageFault"
            /\ pc[d] = "done" /\ thrown[d] # "StorageFault" )
          => LET rows == { o \in orders :
                             /\ o.shopifyOrderId = req[d].shopifyOrder.id
                             /\ o.storeId = req[d].store }
             IN  /\ Cardinality(rows) = 1
                 /\ \A o \in rows :
                       Cardinality(ItemsOfOrder(o.id))
                           = Len(PlannedEntries(CreatorOf(o.id)))

\* C26: a delivery whose HMAC does not match is answered 401 and creates no
\* Order and no OrderItem; processOrder runs only for deliveries whose
\* signature check succeeded.
SignatureGate ==
    \A c \in Calls :
        /\ (pc[c] # "idle" /\ ~req[c].hmacValid) =>
              /\ pc[c] = "done" /\ response[c] = 401
              /\ order[c] = 0 /\ ~rt[c].returned
              /\ req[c].store = Null
        /\ (order[c] # 0 \/ pc[c] \in {"store", "create", "route", "items"})
              => req[c].hmacValid

\* A delivery with a bad HMAC was refused and one with a good HMAC
\* committed its order.
RefusedAndAccepted ==
    \E c, d \in Calls :
        /\ pc[c] = "done" /\ ~req[c].hmacValid /\ response[c] = 401
        /\ Committed(d) /\ req[d].hmacValid
        /\ \A o \in orders : o.id = order[d]

\* C27: a plan has one bucket per selected supplier: no two buckets share a
\* supplierId, no bucket is empty, and every routed item lies in the bucket
\* of the supplier whose offer was selected for it.
OneBucketPerSupplier ==
    \A c \in Calls : \A plan \in Plans(c) :
        /\ \A b1, b2 \in DOMAIN plan :
              plan[b1].supplierId = plan[b2].supplierId => b1 = b2
        /\ \A b \in DOMAIN plan :
              /\ plan[b].items # <<>>
              /\ \A k \in DOMAIN plan[b].items :
                    \E sp \in supplierProducts :
                        /\ sp.supplierSku = plan[b].items[k].supplierSku
                        /\ sp.productId = plan[b].items[k].productId
                        /\ sp.cost = plan[b].items[k].cost
                        /\ sp.supplierId = plan[b].supplierId

\* A plan of two line items of different products, both in the bucket of
\* one supplier.
MergedBucket ==
    /\ rt[1].returned
    /\ Len(routing[1]) = 1
    /\ Len(routing[1][1].items) = 2
    /\ routing[1][1].items[1].productId # routing[1][1].items[2].productId

----------------------------------------------------------------------------
(* Properties of the supplier sync (SpecSync) *)

SupplierId(n) == (CHOOSE r \in Suppliers : r.name = n).id

\* The offers of a supplier in a SupplierProduct table.
OffersOf(rows, n) == { r \in rows : r.supplierId = SupplierId(n) }

LogsOf(n) == { k \in DOMAIN syncLogs : syncLogs[k].supplierId = n }

\* Every record of the feed has a cost and an inventory that are numbers.
Wellformed(feed) ==
    \A i \in DOMAIN feed :
        /\ ~ParseFloat(OrElse(feed[i].cost, feed[i].price)).nan
        /\ ~ParseInt(OrElse(feed[i].inventory, "0")).nan

\* The supplier's offer for the UPC of record i carries the values of the
\* last record of the feed with that UPC.
RecordApplied(n, feed, i) ==
    LET last == CHOOSE j \in DOMAIN feed :
                    /\ feed[j].upc = feed[i].upc
                    /\ \A k \in DOMAIN feed : feed[k].upc = feed[i].upc => k <= j
    IN  \E p \in products : \E r \in OffersOf(supplierProducts, n) :
            /\ p.storeId = "s1" /\ p.upc = feed[i].upc
            /\ r.productId = p.id
            /\ Num(r.cost) = ParseFloat(OrElse(feed[last].cost, feed[last].price))
            /\ Num(r.inventory) = ParseInt(OrElse(feed[last].inventory, "0"))

\* The fetch of the supplier's feed succeeded.
Fetched(n) == sync[n].pc \notin {"off", "fetch"} /\ sync[n].thrown # "FetchError"

\* C15: when the fetch of one supplier's feed throws, that supplier's
\* offers are unchanged and it gets one error log; a sibling whose fetch
\* succeeded is not aborted: it never fails on a well-formed feed, and once
\* settled its records are applied and a success log is written for it.
FetchFailureIsolated ==
    \A a \in syncPromises :
        sync[a].thrown = "FetchError" =>
            /\ OffersOf(supplierProducts, a) = OffersOf(SyncCatalog.supplierProducts, a)
            /\ sync[a].pc = "settled" =>
                  /\ Cardinality(LogsOf(a)) = 1
                  /\ \A k \in LogsOf(a) : syncLogs[k].status = "error"
            /\ \A b \in syncPromises \ {a} :
                  /\ (Fetched(b) /\ Wellformed(sync[b].products))
                        => sync[b].thrown = Null
                  /\ (sync[b].pc = "settled" /\ sync[b].thrown = Null) =>
                        /\ Cardinality(LogsOf(b)) = 1
                        /\ \A k \in LogsOf(b) :
                              /\ syncLogs[k].status = "success"
                              /\ syncLogs[k].recordsProcessed = Len(sync[b].products)
                        /\ (\E r \in suppliers : r.name = b) =>
                              \A i \in DOMAIN sync[b].products :
                                  RecordApplied(b, sync[b].products, i)

\* The sync is over: the fetch of nalpac threw, honeysplace synced a feed
\* of two records.
OneFailedOneSynced ==
    /\ syncPc = "done"
    /\ {"nalpac", "honeysplace"} \subseteq syncPromises
    /\ sync["nalpac"].thrown = "FetchError"
    /\ sync["honeysplace"].thrown = Null
    /\ Len(sync["honeysplace"].products) = 2
    /\ \E r \in suppliers : r.name = "honeysplace"
    /\ OffersOf(supplierProducts, "honeysplace")
          # OffersOf(SyncCatalog.supplierProducts, "honeysplace")

\* C16: in every reachable state there is at most one Product per UPC and
\* store.
OneProductPerUpc ==
    \A p, q \in products :
        (p.upc # Null /\ p.upc = q.upc /\ p.storeId = q.storeId) => p.id = q.id

\* C17: there is at most one SupplierProduct per (Product, Supplier), and
\* its cost and inventory are those of the most recent upsert for the pair.
LastWriterWins ==
    /\ \A r, q \in supplierProducts :
          (r.productId = q.productId /\ r.supplierId = q.supplierId) => r = q
    /\ \A u \in lastUpsert :
          \E r \in supplierProducts :
              /\ r.productId = u.key.productId
              /\ r.supplierId = u.key.supplierId
              /\ r.cost = u.cost
              /\ r.inventory = u.inventory

\* A sync has upserted the offer of product 1 twice, first with cost 8 and
\* inventory 3, then with cost 10 and inventory 5.
UpsertedTwice ==
    \E n \in SupplierNames :
        /\ sync[n].pc = "settled" /\ sync[n].thrown = Null
        /\ Len(sync[n].products) = 2
        /\ sync[n].products[1].upc = sync[n].products[2].upc
        /\ sync[n].products[1].cost # sync[n].products[2].cost
        /\ \E r \in OffersOf(supplierProducts, n) :
              r.productId = 1 /\ r.cost = 10 /\ r.inventory = 5
        /\ \E u \in lastUpsert :
              u.key.supplierId = SupplierId(n) /\ u.cost = 10 /\ u.inventory = 5

\* C18: every SupplierProduct row has inventory >= 0 and cost >= 0.
NonNegativeOffers ==
    \A r \in supplierProducts : r.inventory >= 0 /\ r.cost >= 0

\* C23: OrderItems are immutable after creation: no step, a supplier sync
\* changing the selected offer included, changes a field of an existing
\* OrderItem.
OrderItemsImmutable ==
    [][\A k \in DOMAIN orderItems :
          k \in DOMAIN orderItems' /\ orderItems'[k] = orderItems[k]]_vars

\* The sync has changed the cost and inventory of the offer the committed
\* OrderItem was routed to; the OrderItem still carries unit cost 10.
OfferRepriced ==
    /\ \E r \in supplierProducts :
          /\ r.productId = 1 /\ r.supplierId = 1
          /\ r.cost = 8 /\ r.inventory = 3
    /\ orderItems[1].supplierId = 1 /\ orderItems[1].productId = 1
    /\ orderItems[1].unitCost = 10 /\ orderItems[1].totalCost = 20

\* The supplier sync n takes its upsert step and the upsert is accepted.
Upserts(n) ==
    /\ sync[n].pc = "upsert"
    /\ sync'[n] # sync[n]
    /\ sync'[n].pc # "logerr"

\* C28: an upsert for a pair that already has a SupplierProduct changes
\* only that row's cost and inventory: its supplierSku, the Product rows
\* and every other SupplierProduct row are unchanged.
UpsertFrame ==
    [][\A n \in SupplierNames :
          LET mine(r) == r.productId = sync[n].product /\ r.supplierId = sync[n].supplier
          IN  (Upserts(n) /\ \E r \in supplierProducts : mine(r)) =>
                 /\ products' = products
                 /\ Cardinality(supplierProducts') = Cardinality(supplierProducts)
                 /\ \A r \in supplierProducts :
                       IF mine(r)
                       THEN \E q \in supplierProducts' :
                               /\ q.productId = r.productId
                               /\ q.supplierId = r.supplierId
                               /\ q.supplierSku = r.supplierSku
                       ELSE r \in supplierProducts']_vars

\* nalpac's existing offer for product 1 has been upserted: new cost and
\* inventory, the supplierSku it had, the other suppliers' offers and the
\* Product row as before.
ExistingOfferUpdated ==
    /\ [Offer(1, 1, 8, 3) EXCEPT !.supplierSku = Offer(1, 1, 10, 5).supplierSku]
          \in supplierProducts
    /\ Offer(1, 3, 10, 5) \in supplierProducts
    /\ Offer(3, 1, 8, 3) \in supplierProducts
    /\ \E p \in products : p.id = 1 /\ p.shopifyProductId = "sp1" /\ p.upc = "u1"
    /\ sync["nalpac"].i > 1

\* C30: upsertProduct called with a supplier name that has no Supplier row
\* creates or changes no Product and no SupplierProduct row: no step of
\* that supplier's sync touches the catalog, and the sync never reaches
\* the product lookup.
UnknownSupplierSkipped ==
    [][\A n \in SupplierNames :
          (~\E r \in suppliers : r.name = n) =>
              /\ sync'[n].pc \notin {"find", "create", "upsert"}
              /\ sync'[n] # sync[n] =>
                    products' = products /\ supplierProducts' = supplierProducts]_vars

\* The honeysplace sync went through a feed of two records without a
\* Supplier row for honeysplace.
UnknownSupplierSynced ==
    /\ ~\E r \in suppliers : r.name = "honeysplace"
    /\ sync["honeysplace"].pc = "settled"
    /\ Len(sync["honeysplace"].products) = 2
    /\ sync["honeysplace"].i = 3
    /\ OffersOf(supplierProducts, "honeysplace")
          = OffersOf(SyncCatalog.supplierProducts, "honeysplace")

SyncCompletes ==
    /\ \A n \in SupplierNames :
          (sync[n].pc = "fetch") ~> (sync[n].pc = "settled")
    /\ (syncPc = "settling") ~> (syncPc = "done")

====
